---- MODULE Spec2Model ----
(***************************************************************************)
(* Model of fget: the parallel range downloader (src/src/downloader.rs)    *)
(* and the one-shot HTTP/1.1 client it is built on (src/src/httpx.rs).     *)
(*                                                                         *)
(* Spec      the controller thread (run, download, merge_parts) and the    *)
(*           worker threads (download_part inside the spawned closure),    *)
(*           communicating over the mpsc channel.                          *)
(* SpecHttp  one request of HttpClient: send_request, make_response and    *)
(*           handle_redirect, against a server that answers freely.        *)
(* SpecStall the downloader with servers that may stop sending, under      *)
(*           weak fairness of the controller and of every worker.          *)
(* SpecPlan  download's planning for every length and thread count.        *)
(* SpecUrl   UrlInfo::parse of urlinfo.rs and of httpx.rs on bounded URLs. *)
(***************************************************************************)
EXTENDS Integers, Sequences, FiniteSets, TLC

\* ---------------------------------------------------------------- bounds
\* largest Content-Length the server announces
MaxLen == 4
\* largest num_threads on the command line (the program allows up to 32)
MaxThreads == 2
\* largest Content-Length the partition is planned for
MaxPlanLen == 40
\* longest chain of 3xx answers the server gives to one request
MaxChain == 12
\* most '/'-separated pieces after the authority of a URL
MaxSegs == 2
\* most lines the server sends after the status line, the blank line that
\* ends them not counted
MaxLines == 2

\* ------------------------------------------------------ program constants
\* cfg.num_threads <= 0 || cfg.num_threads > 32
MAX_THREADS == 32
\* let mut buf = [0u8; 8192]
BUF_SIZE == 8192
\* RedirectPolicy::Follow(10)
DEFAULT_MAX_REDIRECTS == 10
\* u64 arithmetic wraps at 2^64 in a build without overflow checks; the
\* model's integers are narrower, so it wraps at 2^30, far above every
\* length the bounds allow
U64Modulus == 2^30

VARIABLES
    cfg,              \* Config: num_threads, info, no_redirect
    head,             \* the headers of the HEAD response: name -> value
    dlinfo,           \* DownloadInfo from the HEAD response
    cpc,              \* controller position: run, download, loop, join, ok, err
    ranges,           \* per part, the start and end its thread was spawned with
    result,           \* what run returned
    wpc,              \* worker position per part
    pos,              \* download_part's pos per part
    body,             \* the body the server sends on a part's connection
    stall,            \* per part: the server keeps the connection open after the body
    chan,             \* the channel: messages sent and not yet received
    rcvd,             \* per part, the messages the controller has received
    cnt,              \* download's cnt
    arrived,          \* the parts whose Done the controller has handled, in order
    dlparts,          \* download's dlparts
    files,            \* the filesystem: path -> content
    inits,            \* the arguments on_init was called with, in order
    hpolicy,          \* HttpConfig.redirect_policy of the first client
    hreq,             \* the request in flight: method, range header
    hpc,              \* client position: ready, redirect, ok, err, panicked
    hhops,            \* redirects followed so far
    hconns,           \* connections opened so far
    herr,             \* error returned by the request
    hstatus,          \* status code of the response read on the connection, 0 before it
    wire,             \* the lines of that response after its status line
    hhdrs,            \* HttpResponse.headers
    hbody,            \* lines of wire read before HttpResponse.body starts
    url,              \* the string given to UrlInfo::parse
    upc,              \* parser position: input, parsed
    uinfo             \* what UrlInfo::parse returned

dvars == <<cfg, head, dlinfo, cpc, ranges, result, wpc, pos, body, stall, chan,
           rcvd, cnt, arrived, dlparts, files, inits>>
hvars == <<hpolicy, hreq, hpc, hhops, hconns, herr, hstatus, wire, hhdrs, hbody>>
uvars == <<url, upc, uinfo>>
vars == <<cfg, head, dlinfo, cpc, ranges, result, wpc, pos, body, stall, chan,
          rcvd, cnt, arrived, dlparts, files, inits, hpolicy, hreq, hpc, hhops,
          hconns, herr, hstatus, wire, hhdrs, hbody, url, upc, uinfo>>

\* ---------------------------------------------------------------- helpers
Min(a, b) == IF a < b THEN a ELSE b

Parts == 0 .. (MaxThreads - 1)

\* the resource on the server: the byte at offset k is k
Resource(len) == [k \in 1 .. len |-> k - 1]

\* format!("{}{}.{}", dir, urlinfo.fname, idx)
TempPath(idx) == <<"tmp/fname", idx>>
\* cfg.output.as_ref().unwrap_or(&urlinfo.fname)
OutPath == <<"fname", 0>>
\* format!("{}.tmp", fpath)
OutTmpPath == <<"fname.tmp", 0>>
\* String::default()
NoPath == <<"", 0>>

\* ------------------------------------------------------------ partitioning
\* the configured thread count, whatever the server supports
NumThreads_Configured(c, d) == c.num_threads

\* let num_threads = if dlinfo.range_supported { cfg.num_threads } else { 1 }
NumThreads(c, d) == IF d.range_supported THEN c.num_threads ELSE 1

\* let chunk_size = (dlinfo.len + num_threads - 1) / num_threads
ChunkSize(len, n) == (len + n - 1) \div n

\* let start = i * chunk_size
PartStart(len, n, i) == i * ChunkSize(len, n)

\* let end = cmp::min((i + 1) * chunk_size - 1, dlinfo.len - 1)
PartEnd(len, n, i) == Min((i + 1) * ChunkSize(len, n) - 1, len - 1)

\* for i in 0..num_threads: the start and end moved into thread i's closure
PlanRanges(len, n) ==
    [i \in 0 .. (n - 1) |-> [start |-> PartStart(len, n, i),
                             end |-> PartEnd(len, n, i)]]

N == NumThreads(cfg, dlinfo)
Start(i) == ranges[i].start
End(i) == ranges[i].end
Live == DOMAIN ranges

\* the offsets a Range: bytes=start-end header names
RangeSet(s, e) == s .. e

\* ---------------------------------------------------------- HEAD response
\* the HEAD responses client.head returns Ok for, with the headers that
\* matter to get_download_info; a header is absent (<<>>) or present with
\* its value (<<v>>)
HeadResponses(maxlen) ==
    [status : {200},
     content_length : {<<>>} \cup {<<n>> : n \in 0 .. maxlen},
     accept_ranges : {<<>>, <<"bytes">>, <<"none">>, <<"Bytes">>}]
\* no response yet
NoResponse == [status |-> 0, content_length |-> <<>>, accept_ranges |-> <<>>]

\* a missing Content-Length counts as a length of 1
GetDownloadInfo_LenOne(h) ==
    [len |-> IF h.content_length = <<>> THEN 1 ELSE h.content_length[1],
     range_supported |-> (h.accept_ranges = <<"bytes">>)]

\* get_download_info: len = 0 and range_supported = false unless a header
\* sets them; range_supported = (val == "bytes")
GetDownloadInfo(h) ==
    [len |-> IF h.content_length = <<>> THEN 0 ELSE h.content_length[1],
     range_supported |-> (h.accept_ranges = <<"bytes">>)]

\* ------------------------------------------------------------------ Init
\* RedirectPolicy::Follow(u8) | RedirectPolicy::None
Follow(n) == [kind |-> "Follow", max |-> n]
NoRedirect == [kind |-> "None", max |-> 0]

\* build_client: HttpClientBuilder::new() has DEFAULT_REDIRECT_POLICY, and
\* cfg.no_redirect replaces it by RedirectPolicy::None
BuildClientPolicy(no_redirect) ==
    IF no_redirect THEN NoRedirect ELSE Follow(DEFAULT_MAX_REDIRECTS)

\* the downloader before run is called, with servers that stall on the
\* connections of the parts st marks
InitDownloadOn(st) ==
    /\ cfg \in [num_threads : 1 .. MaxThreads, info : BOOLEAN]
    /\ head = NoResponse
    /\ dlinfo = [len |-> 0, range_supported |-> FALSE]
    /\ cpc = "run"
    /\ ranges = <<>>
    /\ result = [kind |-> "none", msg |-> "", part |-> 0]
    /\ wpc = [i \in Parts |-> "unspawned"]
    /\ pos = [i \in Parts |-> 0]
    /\ body = [i \in Parts |-> <<>>]
    /\ stall = st
    /\ chan = <<>>
    /\ rcvd = [i \in Parts |-> <<>>]
    /\ cnt = 0
    /\ arrived = <<>>
    /\ dlparts = <<>>
    /\ files = <<>>
    /\ inits = <<>>

\* the downloader before run is called; every server sends its body and
\* closes the connection
InitDownload == InitDownloadOn([i \in Parts |-> FALSE])

\* no client under observation
NoClient ==
    /\ hpolicy = Follow(DEFAULT_MAX_REDIRECTS)
    /\ hreq = [method |-> "GET", range |-> FALSE]
    /\ hpc = "none"
    /\ hhops = 0
    /\ hconns = 0
    /\ herr = "none"
    /\ hstatus = 0
    /\ wire = <<>>
    /\ hhdrs = <<>>
    /\ hbody = 0

\* the empty String
EmptyStr == <<>>

\* what a parse returned: Ok(UrlInfo), Err(message) or a panic
Info(by, status, err, scheme, domain, port, path, fname) ==
    [by |-> by, status |-> status, err |-> err, scheme |-> scheme,
     domain |-> domain, port |-> port, path |-> path, fname |-> fname]
ParseErr(by, msg) == Info(by, "err", msg, EmptyStr, EmptyStr, 0, EmptyStr, EmptyStr)
ParsePanic(by) == Info(by, "panic", "", EmptyStr, EmptyStr, 0, EmptyStr, EmptyStr)
NoInfo == Info("none", "none", "", EmptyStr, EmptyStr, 0, EmptyStr, EmptyStr)

\* no URL under observation
NoUrl ==
    /\ url = EmptyStr
    /\ upc = "none"
    /\ uinfo = NoInfo

Init == InitDownload /\ NoClient /\ NoUrl

\* ------------------------------------------------------------- filesystem
Exists(f, p) == p \in DOMAIN f
\* File::create(p) followed by writes of c
Put(f, p, c) == [q \in (DOMAIN f) \cup {p} |-> IF q = p THEN c ELSE f[q]]
Remove(f, p) == [q \in (DOMAIN f) \ {p} |-> f[q]]
\* fs::rename(from, to)
Rename(f, from, to) == Put(Remove(f, from), to, f[from])

\* ---------------------------------------------------------------- channel
\* the receiver lives from mpsc::channel() until download returns or leaves
\* the `for msg in recv` loop
RecvAlive == cpc = "loop"

Msg(kind, idx, n, s) == [kind |-> kind, idx |-> idx, n |-> n, s |-> s]

\* sender.send(m): Ok when the receiver is alive, Err otherwise
SendOk(m) == RecvAlive /\ chan' = Append(chan, m)
SendErr == ~RecvAlive /\ chan' = chan

\* the closure of thread::spawn: download_part returned Err, so it sends
\* Failed and unwraps the result of that send
ClosureOnErr(i, why) ==
    \/ SendOk(Msg("Failed", i, 0, why)) /\ wpc' = [wpc EXCEPT ![i] = "failed"]
    \/ SendErr /\ wpc' = [wpc EXCEPT ![i] = "panicked"]

\* a `sender.send(..)?` inside download_part: on Err the function returns the
\* SendError to the closure, whose own send then fails too and unwrap panics
SendOrBail(i, m, next) ==
    \/ SendOk(m) /\ wpc' = [wpc EXCEPT ![i] = next]
    \/ SendErr /\ wpc' = [wpc EXCEPT ![i] = "panicked"]

\* ------------------------------------------------------------- controller
\* run without the info branch: the download goes on after the headers
Run_InfoGoesOn ==
    /\ cpc = "run"
    /\ \/ /\ result' = [kind |-> "err", msg |-> "head request failed", part |-> 0]
          /\ cpc' = "err"
          /\ UNCHANGED <<head, dlinfo>>
       \/ \E h \in HeadResponses(MaxLen) :
            /\ head' = h
            /\ dlinfo' = GetDownloadInfo(h)
            /\ IF dlinfo'.len = 0
               THEN /\ result' = [kind |-> "err",
                                  msg |-> "content length is zero",
                                  part |-> 0]
                    /\ cpc' = "err"
               ELSE /\ cpc' = "download"
                    /\ UNCHANGED result
    /\ UNCHANGED <<cfg, inits, stall, ranges, wpc, pos, body, chan, rcvd, cnt, arrived,
                   dlparts, files>>
    /\ UNCHANGED hvars
    /\ UNCHANGED uvars

\* run: HEAD probe, info mode, get_download_info, the len == 0 check
Run ==
    /\ cpc = "run"
    /\ \/ \* build_client or client.head failed
          /\ result' = [kind |-> "err", msg |-> "head request failed", part |-> 0]
          /\ cpc' = "err"
          /\ UNCHANGED <<head, dlinfo>>
       \/ \E h \in HeadResponses(MaxLen) :
            /\ head' = h
            /\ IF cfg.info
               THEN /\ result' = [kind |-> "ok", msg |-> "info", part |-> 0]
                    /\ cpc' = "ok"
                    /\ UNCHANGED dlinfo
               ELSE
                 /\ dlinfo' = GetDownloadInfo(h)
                 /\ IF dlinfo'.len = 0
                    THEN /\ result' = [kind |-> "err",
                                       msg |-> "content length is zero",
                                       part |-> 0]
                         /\ cpc' = "err"
                    ELSE /\ cpc' = "download"
                         /\ UNCHANGED result
    /\ UNCHANGED <<cfg, inits, stall, ranges, wpc, pos, body, chan, rcvd, cnt, arrived,
                   dlparts, files>>
    /\ UNCHANGED hvars
    /\ UNCHANGED uvars

\* self.ob.on_init(n)
OnInit(n) == inits' = Append(inits, n)

\* on_init gets the thread count of the command line
DownloadInit_Configured ==
    /\ cpc = "download"
    /\ OnInit(cfg.num_threads)
    /\ cpc' = "spawn"
    /\ UNCHANGED <<cfg, head, stall, dlinfo, ranges, result, wpc, pos, body, chan,
                   rcvd, cnt, arrived, dlparts, files>>
    /\ UNCHANGED hvars
    /\ UNCHANGED uvars

\* download, up to on_init: num_threads, chunk_size, on_init(num_threads)
DownloadInit ==
    /\ cpc = "download"
    /\ OnInit(N)
    /\ cpc' = "spawn"
    /\ UNCHANGED <<cfg, head, stall, dlinfo, ranges, result, wpc, pos, body, chan,
                   rcvd, cnt, arrived, dlparts, files>>
    /\ UNCHANGED hvars
    /\ UNCHANGED uvars

\* download, from the channel to the event loop: spawn one thread per part,
\* cnt, dlparts
Download ==
    /\ cpc = "spawn"
    /\ ranges' = PlanRanges(dlinfo.len, N)
    /\ wpc' = [i \in Parts |-> IF i < N THEN "spawned" ELSE "unspawned"]
    /\ cnt' = N
    /\ arrived' = <<>>
    /\ dlparts' = [i \in 0 .. (N - 1) |-> NoPath]
    /\ cpc' = "loop"
    /\ UNCHANGED <<cfg, inits, head, stall, dlinfo, result, pos, body, chan, rcvd, files>>
    /\ UNCHANGED hvars
    /\ UNCHANGED uvars

\* for msg in recv
NextMsg == Head(chan)
HasMsg == cpc = "loop" /\ chan # <<>>
Take ==
    /\ chan' = Tail(chan)
    /\ rcvd' = [rcvd EXCEPT ![NextMsg.idx] = Append(@, NextMsg)]

\* DownloadStatus::Started(idx, len) => ob.on_download_start(idx, len)
RecvStarted ==
    /\ HasMsg
    /\ NextMsg.kind = "Started"
    /\ Take
    /\ UNCHANGED <<cfg, inits, head, stall, dlinfo, ranges, cpc, result, wpc, pos, body,
                   cnt, arrived, dlparts, files>>
    /\ UNCHANGED hvars
    /\ UNCHANGED uvars

\* DownloadStatus::Progress(idx, pos) => ob.on_progress(idx, pos)
RecvProgress ==
    /\ HasMsg
    /\ NextMsg.kind = "Progress"
    /\ Take
    /\ UNCHANGED <<cfg, inits, head, stall, dlinfo, ranges, cpc, result, wpc, pos, body,
                   cnt, arrived, dlparts, files>>
    /\ UNCHANGED hvars
    /\ UNCHANGED uvars

\* the Failed arm only ends the part's progress bar and the loop goes on
RecvFailed_Continue ==
    /\ HasMsg
    /\ NextMsg.kind = "Failed"
    /\ Take
    /\ UNCHANGED <<cfg, inits, head, stall, dlinfo, ranges, cpc, result, wpc, pos, body,
                   cnt, arrived, dlparts, files>>
    /\ UNCHANGED hvars
    /\ UNCHANGED uvars

\* DownloadStatus::Failed(idx, err): on_download_end, return Err
RecvFailed ==
    /\ HasMsg
    /\ NextMsg.kind = "Failed"
    /\ Take
    /\ result' = [kind |-> "err", msg |-> "download failed at part",
                  part |-> NextMsg.idx]
    /\ cpc' = "err"
    /\ UNCHANGED <<cfg, inits, head, stall, dlinfo, ranges, wpc, pos, body, cnt, arrived, dlparts,
                   files>>
    /\ UNCHANGED hvars
    /\ UNCHANGED uvars

\* the path goes into the first free slot, as dlparts.push(fpath) would put it
StoreDone_Push(parts, idx, fpath) ==
    LET k == CHOOSE j \in DOMAIN parts :
                 parts[j] = NoPath /\ \A h \in DOMAIN parts : h < j => parts[h] # NoPath
    IN  [parts EXCEPT ![k] = fpath]

\* dlparts[idx as usize] = fpath
StoreDone(parts, idx, fpath) == [parts EXCEPT ![idx] = fpath]

\* the loop breaks at the first Done
RecvDone_BreakAtOnce ==
    /\ HasMsg
    /\ NextMsg.kind = "Done"
    /\ Take
    /\ dlparts' = StoreDone(dlparts, NextMsg.idx, NextMsg.s)
    /\ cnt' = cnt - 1
    /\ arrived' = Append(arrived, NextMsg.idx)
    /\ cpc' = "join"
    /\ UNCHANGED <<cfg, inits, head, stall, dlinfo, ranges, result, wpc, pos, body, files>>
    /\ UNCHANGED hvars
    /\ UNCHANGED uvars

\* DownloadStatus::Done(idx, fpath): record the path, on_download_end,
\* count down, break at zero
RecvDone ==
    /\ HasMsg
    /\ NextMsg.kind = "Done"
    /\ Take
    /\ dlparts' = StoreDone(dlparts, NextMsg.idx, NextMsg.s)
    /\ cnt' = cnt - 1
    /\ arrived' = Append(arrived, NextMsg.idx)
    /\ cpc' = IF cnt' = 0 THEN "join" ELSE "loop"
    /\ UNCHANGED <<cfg, inits, head, stall, dlinfo, ranges, result, wpc, pos, body, files>>
    /\ UNCHANGED hvars
    /\ UNCHANGED uvars

\* ----------------------------------------------------------------- server
\* the bytes start..=end of the resource
HonestBody(len, s, e) ==
    IF s <= e THEN SubSeq(Resource(len), s + 1, e + 1) ELSE <<>>

\* what a server may put on the wire after a 2xx status line before it
\* closes: the requested range, a prefix of it (it closes early), or the
\* whole resource (it ignores the Range header)
ServerBodies(len, s, e) ==
    {SubSeq(HonestBody(len, s, e), 1, k) : k \in 0 .. Len(HonestBody(len, s, e))}
        \cup {Resource(len)}

\* ---------------------------------------------------------------- workers
\* end - start in u64 when the build has no overflow checks: it wraps
U64Sub(a, b) == IF a >= b THEN a - b ELSE U64Modulus - (b - a)

\* download_part up to the first send: build_client, get_with_headers,
\* File::create, Started(idx, end - start). When end < start the subtraction
\* overflows: a build with overflow checks (the dev profile) panics there, a
\* build without them (the release profile) wraps
WorkerGet(i) ==
    /\ wpc[i] = "spawned"
    /\ \/ \* build_client, the GET or File::create returned Err
          /\ ClosureOnErr(i, "request failed")
          /\ UNCHANGED <<pos, body, files>>
       \/ \* attempt to subtract with overflow: the thread panics
          /\ End(i) < Start(i)
          /\ files' = Put(files, TempPath(i), <<>>)
          /\ wpc' = [wpc EXCEPT ![i] = "panicked"]
          /\ UNCHANGED <<pos, body, chan>>
       \/ \E b \in ServerBodies(dlinfo.len, Start(i), End(i)) :
            /\ files' = Put(files, TempPath(i), <<>>)
            /\ pos' = [pos EXCEPT ![i] = Start(i)]
            /\ body' = [body EXCEPT ![i] = b]
            /\ SendOrBail(i, Msg("Started", i, U64Sub(End(i), Start(i)), ""),
                          "reading")
    /\ UNCHANGED <<cfg, inits, head, stall, dlinfo, ranges, cpc, result, rcvd, cnt, arrived, dlparts>>
    /\ UNCHANGED hvars
    /\ UNCHANGED uvars

\* while pos < end
LoopCond(p, e) == p < e

\* the bytes worker i has written to its temp file, and those still to come
Written(i) == SubSeq(body[i], 1, pos[i] - Start(i))
Unread(i) == SubSeq(body[i], pos[i] - Start(i) + 1, Len(body[i]))

\* one turn of the read loop with n > 0: read, write_all, pos += n,
\* Progress(idx, pos - start)
WorkerRead(i) ==
    /\ wpc[i] = "reading"
    /\ LoopCond(pos[i], End(i))
    /\ \E n \in 1 .. Min(BUF_SIZE, Len(Unread(i))) :
         /\ files' = Put(files, TempPath(i),
                         files[TempPath(i)] \o SubSeq(Unread(i), 1, n))
         /\ pos' = [pos EXCEPT ![i] = pos[i] + n]
         /\ SendOrBail(i, Msg("Progress", i, pos'[i] - Start(i), ""), "reading")
    /\ UNCHANGED <<cfg, inits, head, stall, dlinfo, ranges, cpc, result, body, rcvd, cnt, arrived,
                   dlparts>>
    /\ UNCHANGED hvars
    /\ UNCHANGED uvars

\* r.read blocks: the server has sent all it is going to send on this
\* connection and keeps it open; open_conn sets no read timeout on the
\* stream, so the call does not return
ReadBlocks(i) == stall[i] /\ Unread(i) = <<>>

\* r.read or file.write_all returned Err inside the loop
WorkerReadErr(i) ==
    /\ wpc[i] = "reading"
    /\ LoopCond(pos[i], End(i))
    /\ ~ReadBlocks(i)
    /\ ClosureOnErr(i, "read failed")
    /\ UNCHANGED <<cfg, inits, head, stall, dlinfo, ranges, cpc, result, pos, body, rcvd,
                   cnt, arrived, dlparts, files>>
    /\ UNCHANGED hvars
    /\ UNCHANGED uvars

\* download_part sends Done twice
WorkerDone_Twice(i) ==
    /\ wpc[i] = "reading"
    /\ \/ ~LoopCond(pos[i], End(i))
       \/ Unread(i) = <<>> /\ ~stall[i]
    /\ \/ /\ RecvAlive
          /\ chan' = chan \o <<Msg("Done", i, 0, TempPath(i)),
                                Msg("Done", i, 0, TempPath(i))>>
          /\ wpc' = [wpc EXCEPT ![i] = "done"]
       \/ SendErr /\ wpc' = [wpc EXCEPT ![i] = "panicked"]
    /\ UNCHANGED <<cfg, inits, head, stall, dlinfo, ranges, cpc, result, pos, body, rcvd,
                   cnt, arrived, dlparts, files>>
    /\ UNCHANGED hvars
    /\ UNCHANGED uvars

\* the closure sends Failed whatever download_part returned
WorkerDone_ThenFailed(i) ==
    /\ wpc[i] = "reading"
    /\ \/ ~LoopCond(pos[i], End(i))
       \/ Unread(i) = <<>> /\ ~stall[i]
    /\ \/ /\ RecvAlive
          /\ chan' = chan \o <<Msg("Done", i, 0, TempPath(i)),
                                Msg("Failed", i, 0, "failed")>>
          /\ wpc' = [wpc EXCEPT ![i] = "done"]
       \/ SendErr /\ wpc' = [wpc EXCEPT ![i] = "panicked"]
    /\ UNCHANGED <<cfg, inits, head, stall, dlinfo, ranges, cpc, result, pos, body, rcvd,
                   cnt, arrived, dlparts, files>>
    /\ UNCHANGED hvars
    /\ UNCHANGED uvars

\* the loop ends, by its condition or by a read of 0 bytes (the server has
\* sent everything it was going to and closed): Done(idx, fpath), then
\* download_part returns Ok(()), which closes the temp file, and the
\* thread's closure ends
WorkerDone(i) ==
    /\ wpc[i] = "reading"
    /\ \/ ~LoopCond(pos[i], End(i))
       \/ Unread(i) = <<>> /\ ~stall[i]
    /\ SendOrBail(i, Msg("Done", i, 0, TempPath(i)), "done")
    /\ UNCHANGED <<cfg, inits, head, stall, dlinfo, ranges, cpc, result, pos, body, rcvd,
                   cnt, arrived, dlparts, files>>
    /\ UNCHANGED hvars
    /\ UNCHANGED uvars

\* ------------------------------------------------------------------ merge
RECURSIVE ConcatParts(_, _, _)
\* for part in parts { copy the whole of File::open(part) to w }
ConcatParts(parts, f, k) ==
    IF k \notin DOMAIN parts THEN <<>>
    ELSE f[parts[k]] \o ConcatParts(parts, f, k + 1)

\* merge_parts(fpath, parts): the filesystem it leaves
MergeParts(f, fpath, parts) ==
    IF Cardinality(DOMAIN parts) = 1
    THEN Rename(f, parts[0], fpath)
    ELSE Rename(Put(f, OutTmpPath, ConcatParts(parts, f, 0)), OutTmpPath, fpath)

\* handle.join() returns: the thread of part i has ended
Terminated(i) == wpc[i] \in {"done", "failed", "panicked"}

\* the controller merges as soon as one part is Done, without waiting for
\* the other parts or joining any thread
Merge_OnFirstDone ==
    /\ cpc = "loop"
    /\ \E k \in DOMAIN dlparts : dlparts[k] # NoPath
    /\ IF \E k \in DOMAIN dlparts : ~Exists(files, dlparts[k])
       THEN /\ cpc' = "err"
            /\ result' = [kind |-> "err", msg |-> "merge failed", part |-> 0]
            /\ UNCHANGED files
       ELSE /\ files' = MergeParts(files, OutPath, dlparts)
            /\ result' = [kind |-> "ok", msg |-> "downloaded", part |-> 0]
            /\ cpc' = "ok"
    /\ UNCHANGED <<cfg, inits, head, stall, dlinfo, ranges, wpc, pos, body, chan, rcvd,
                   cnt, arrived, dlparts>>
    /\ UNCHANGED hvars
    /\ UNCHANGED uvars

\* download after the loop: join every handle, merge_parts, return Ok
Merge ==
    /\ cpc = "join"
    /\ \A i \in Live : Terminated(i)
    /\ IF \E i \in Live : wpc[i] = "panicked"
       THEN \* handle.join().unwrap() panics
            /\ cpc' = "panicked"
            /\ UNCHANGED <<result, files>>
       ELSE IF \E k \in DOMAIN dlparts : ~Exists(files, dlparts[k])
       THEN \* fs::rename or File::open returned Err
            /\ cpc' = "err"
            /\ result' = [kind |-> "err", msg |-> "merge failed", part |-> 0]
            /\ UNCHANGED files
       ELSE /\ files' = MergeParts(files, OutPath, dlparts)
            /\ result' = [kind |-> "ok", msg |-> "downloaded", part |-> 0]
            /\ cpc' = "ok"
    /\ UNCHANGED <<cfg, inits, head, stall, dlinfo, ranges, wpc, pos, body, chan, rcvd,
                   cnt, arrived, dlparts>>
    /\ UNCHANGED hvars
    /\ UNCHANGED uvars

Next ==
    \/ Run
    \/ DownloadInit
    \/ Download
    \/ RecvStarted
    \/ RecvProgress
    \/ RecvFailed
    \/ RecvDone
    \/ Merge
    \/ \E i \in Parts : WorkerGet(i)
    \/ \E i \in Parts : WorkerRead(i)
    \/ \E i \in Parts : WorkerReadErr(i)
    \/ \E i \in Parts : WorkerDone(i)

Spec == Init /\ [][Next]_vars

\* ---------------------------------------------------------- stalled servers
\* the servers of any of the parts may stop sending and keep the connection
\* open
InitStall ==
    /\ \E st \in [Parts -> BOOLEAN] : InitDownloadOn(st)
    /\ NoClient
    /\ NoUrl

\* the steps of the controller thread, and those of the thread of part i
Controller ==
    \/ Run
    \/ DownloadInit
    \/ Download
    \/ RecvStarted
    \/ RecvProgress
    \/ RecvFailed
    \/ RecvDone
    \/ Merge
Worker(i) ==
    \/ WorkerGet(i)
    \/ WorkerRead(i)
    \/ WorkerReadErr(i)
    \/ WorkerDone(i)

\* every thread that can take a step is scheduled in the end
Fairness ==
    /\ WF_vars(Controller)
    /\ \A i \in Parts : WF_vars(Worker(i))

SpecStall == InitStall /\ [][Next]_vars /\ Fairness

\* ------------------------------------------------------------ HTTP client
\* status codes the server answers with
Statuses == {101, 200, 206, 301, 302, 404, 500}

\* a client built by build_client, about to send head(path) or
\* get_with_headers(path, {Range}) on its one connection
InitClient ==
    /\ \E no_redirect \in BOOLEAN : hpolicy = BuildClientPolicy(no_redirect)
    /\ hreq \in {[method |-> "HEAD", range |-> FALSE],
                 [method |-> "GET", range |-> FALSE],
                 [method |-> "GET", range |-> TRUE]}
    /\ hpc = "ready"
    /\ hhops = 0
    /\ hconns = 1
    /\ herr = "none"
    /\ hstatus = 0
    /\ wire = <<>>
    /\ hhdrs = <<>>
    /\ hbody = 0

\* no download under observation
NoDownload ==
    /\ cfg = [num_threads |-> 1, info |-> FALSE]
    /\ head = NoResponse
    /\ dlinfo = [len |-> 0, range_supported |-> FALSE]
    /\ cpc = "none"
    /\ ranges = <<>>
    /\ result = [kind |-> "none", msg |-> "", part |-> 0]
    /\ wpc = [i \in Parts |-> "unspawned"]
    /\ pos = [i \in Parts |-> 0]
    /\ body = [i \in Parts |-> <<>>]
    /\ stall = [i \in Parts |-> FALSE]
    /\ chan = <<>>
    /\ rcvd = [i \in Parts |-> <<>>]
    /\ cnt = 0
    /\ arrived = <<>>
    /\ dlparts = <<>>
    /\ files = <<>>
    /\ inits = <<>>

InitHttp == NoDownload /\ InitClient /\ NoUrl

\* --------------------------------------------------------------- planning
\* download called with any length and any thread count Config::build lets
\* through
InitPlan ==
    /\ cfg \in [num_threads : 1 .. MAX_THREADS, info : {FALSE}]
    /\ head \in HeadResponses(MaxPlanLen)
    /\ dlinfo = GetDownloadInfo(head)
    /\ dlinfo.len > 0
    /\ cpc = "download"
    /\ ranges = <<>>
    /\ result = [kind |-> "none", msg |-> "", part |-> 0]
    /\ wpc = [i \in Parts |-> "unspawned"]
    /\ pos = [i \in Parts |-> 0]
    /\ body = [i \in Parts |-> <<>>]
    /\ stall = [i \in Parts |-> FALSE]
    /\ chan = <<>>
    /\ rcvd = [i \in Parts |-> <<>>]
    /\ cnt = 0
    /\ arrived = <<>>
    /\ dlparts = <<>>
    /\ files = <<>>
    /\ inits = <<>>
    /\ NoClient
    /\ NoUrl

\* download's planning: num_threads, chunk_size, on_init and the start and
\* end of every part, cnt and dlparts
Plan ==
    /\ cpc = "download"
    /\ ranges' = PlanRanges(dlinfo.len, N)
    /\ cnt' = N
    /\ dlparts' = [i \in 0 .. (N - 1) |-> NoPath]
    /\ OnInit(N)
    /\ cpc' = "planned"
    /\ UNCHANGED <<cfg, head, stall, dlinfo, result, wpc, pos, body, chan, rcvd, arrived,
                   files>>
    /\ UNCHANGED hvars
    /\ UNCHANGED uvars

NextPlan == Plan

SpecPlan == InitPlan /\ [][NextPlan]_vars

\* ------------------------------------------------------------ URL parsing
\* a string is the sequence of its characters
Http == <<"h", "t", "t", "p">>
Https == <<"h", "t", "t", "p", "s">>
Ftp == <<"f", "t", "p">>
Colon == <<":">>
Slash == <<"/">>

\* the value of a decimal digit, and the digit of a value
DigitOf == ("0" :> 0) @@ ("1" :> 1) @@ ("2" :> 2) @@ ("3" :> 3) @@ ("4" :> 4)
           @@ ("5" :> 5) @@ ("6" :> 6) @@ ("7" :> 7) @@ ("8" :> 8) @@ ("9" :> 9)
DigitChar == <<"0", "1", "2", "3", "4", "5", "6", "7", "8", "9">>

\* u16::MAX
U16Max == 65535

RECURSIVE Split(_, _)
\* s.split(c).collect(): one more piece than there are c in s
Split(s, c) ==
    IF s = <<>> THEN <<EmptyStr>>
    ELSE IF Head(s) = c THEN <<EmptyStr>> \o Split(Tail(s), c)
    ELSE LET r == Split(Tail(s), c)
         IN  <<<<Head(s)>> \o r[1]>> \o Tail(r)

\* s.contains(c)
Contains(s, c) == \E k \in DOMAIN s : s[k] = c

RECURSIVE DigitsValue(_, _)
\* the digits of s read left to right onto acc; -1 stands for the ParseIntError
\* of a character that is no digit or of a value above u16::MAX
DigitsValue(s, acc) ==
    IF s = <<>> THEN acc
    ELSE IF Head(s) \notin DOMAIN DigitOf THEN -1
    ELSE IF acc * 10 + DigitOf[Head(s)] > U16Max THEN -1
    ELSE DigitsValue(Tail(s), acc * 10 + DigitOf[Head(s)])

\* s.parse::<u16>(): an optional '+', then at least one digit
ParseU16(s) ==
    LET t == IF s # <<>> /\ Head(s) = "+" THEN Tail(s) ELSE s
    IN  IF t = <<>> THEN -1 ELSE DigitsValue(t, 0)

RECURSIVE FormatU16(_)
\* format!("{}", port)
FormatU16(n) ==
    IF n < 10 THEN <<DigitChar[n + 1]>>
    ELSE FormatU16(n \div 10) \o <<DigitChar[(n % 10) + 1]>>

\* parse_host_and_port(addr, scheme): the same code in urlinfo.rs and httpx.rs
ParseHostAndPort(addr, scheme) ==
    IF Contains(addr, ":")
    THEN LET parts == Split(addr, ":")
         IN  IF Len(parts) # 2
             THEN [err |-> "Invalid address", host |-> EmptyStr, port |-> 0]
             ELSE IF ParseU16(parts[2]) = -1
             THEN [err |-> "invalid digit found in string", host |-> EmptyStr,
                   port |-> 0]
             ELSE [err |-> "", host |-> parts[1], port |-> ParseU16(parts[2])]
    ELSE IF scheme = Http THEN [err |-> "", host |-> addr, port |-> 80]
    ELSE IF scheme = Https THEN [err |-> "", host |-> addr, port |-> 443]
    ELSE [err |-> "Invalid scheme", host |-> EmptyStr, port |-> 0]

\* parse_and_validate_scheme: scheme == "http:" || scheme == "https:"
ValidScheme(seg) == seg = Http \o Colon \/ seg = Https \o Colon

\* &scheme[..scheme.len() - 1]
DropLast(seg) == SubSeq(seg, 1, Len(seg) - 1)

\* the index of the second '/' instead of the third
QueryIdx_OneShort(parts) == Len(parts[1]) + Len(parts[2]) + Len(parts[3]) + 1

\* let query_idx = parts[0].len() + parts[1].len() + parts[2].len() + 2
QueryIdx(parts) == Len(parts[1]) + Len(parts[2]) + Len(parts[3]) + 2

\* url[query_idx..]
From(u, idx) == SubSeq(u, idx + 1, Len(u))

\* urlinfo::UrlInfo::parse, the parser run calls on cfg.url
UrlInfoParse(u) ==
    LET parts == Split(u, "/")
    IN  IF Len(parts) < 4 THEN ParseErr("urlinfo", "Invalid URL")
        ELSE IF ~ValidScheme(parts[1]) THEN ParseErr("urlinfo", "Invalid scheme")
        ELSE LET scheme == DropLast(parts[1])
                 hp == ParseHostAndPort(parts[3], scheme)
             IN  IF hp.err # "" THEN ParseErr("urlinfo", hp.err)
                 ELSE Info("urlinfo", "ok", "", scheme, hp.host, hp.port,
                           From(u, QueryIdx(parts)), parts[Len(parts)])

\* httpx::UrlInfo::parse, the parser HttpClientBuilder::from_url calls on a
\* Location value: parts[0][..len - 1] panics on an empty parts[0] and
\* parts[2] panics when there are fewer than three pieces
HttpxUrlInfoParse(u) ==
    LET parts == Split(u, "/")
    IN  IF parts[1] = EmptyStr THEN ParsePanic("httpx")
        ELSE IF Len(parts) < 3 THEN ParsePanic("httpx")
        ELSE LET scheme == DropLast(parts[1])
                 hp == ParseHostAndPort(parts[3], scheme)
             IN  IF hp.err # "" THEN ParseErr("httpx", hp.err)
                 ELSE Info("httpx", "ok", "", scheme, hp.host, hp.port,
                           From(u, QueryIdx(parts)), parts[Len(parts)])

\* UrlInfo::host_addr: format!("{}:{}", self.domain, self.port)
HostAddr(info) == info.domain \o Colon \o FormatU16(info.port)

RECURSIVE Join(_)
\* the pieces with a '/' between each two
Join(segs) ==
    IF Len(segs) = 1 THEN segs[1] ELSE segs[1] \o Slash \o Join(Tail(segs))

\* the pieces the URLs under test are made of
SchemeSegs == {Http \o Colon, Https \o Colon, Ftp \o Colon, Http, EmptyStr}
SecondSegs == {EmptyStr, <<"x">>}
Hosts == {<<"h">>}
\* the text after the ':' of an authority, with the port it denotes (-1: none)
PortTexts ==
    {[text |-> <<"8", "0">>, value |-> 80, canon |-> <<"8", "0">>],
     [text |-> <<"0", "8">>, value |-> 8, canon |-> <<"8">>],
     [text |-> <<"6", "5", "5", "3", "5">>, value |-> 65535,
      canon |-> <<"6", "5", "5", "3", "5">>],
     [text |-> <<"6", "5", "5", "3", "6">>, value |-> -1, canon |-> EmptyStr],
     [text |-> <<"+", "8">>, value |-> -1, canon |-> EmptyStr],
     [text |-> <<"x">>, value |-> -1, canon |-> EmptyStr],
     [text |-> EmptyStr, value |-> -1, canon |-> EmptyStr],
     [text |-> <<"8", ":", "9">>, value |-> -1, canon |-> EmptyStr]}
AuthSegs ==
    Hosts \cup {EmptyStr}
        \cup {h \o Colon \o p.text : h \in Hosts, p \in PortTexts}
PathSegs == {EmptyStr, <<"a">>, <<"f", ".", "b">>, <<"a", "?", "q">>}
\* the pieces after the authority: none up to MaxSegs of them
RestSeqs == UNION {[1 .. k -> PathSegs] : k \in 0 .. MaxSegs}

Urls ==
    {Join(<<a>>) : a \in SchemeSegs}
        \cup {Join(<<a, b>>) : a \in SchemeSegs, b \in SecondSegs}
        \cup {Join(<<a, b, c>> \o r) :
                a \in SchemeSegs, b \in SecondSegs, c \in AuthSegs, r \in RestSeqs}

InitUrl ==
    /\ NoDownload
    /\ NoClient
    /\ url \in Urls
    /\ upc = "input"
    /\ uinfo = NoInfo

\* run: let urlinfo = UrlInfo::parse(&cfg.url)
ParseUrl ==
    /\ upc = "input"
    /\ uinfo' = UrlInfoParse(url)
    /\ upc' = "parsed"
    /\ UNCHANGED url
    /\ UNCHANGED dvars
    /\ UNCHANGED hvars

\* handle_redirect: HttpClientBuilder::new().from_url(&val)
ParseLocation ==
    /\ upc = "input"
    /\ uinfo' = HttpxUrlInfoParse(url)
    /\ upc' = "parsed"
    /\ UNCHANGED url
    /\ UNCHANGED dvars
    /\ UNCHANGED hvars

NextUrl ==
    \/ ParseUrl
    \/ ParseLocation

SpecUrl == InitUrl /\ [][NextUrl]_vars

\* ------------------------------------------------------- response headers
Cr == "\r"
Lf == "\n"
Space == " "
Tab == "\t"
CrLf == <<Cr, Lf>>

\* char::is_whitespace, for the characters the model's lines hold
Whitespace == {Space, Tab, Cr, Lf}

RECURSIVE TrimEnd(_)
\* str::trim_end
TrimEnd(s) ==
    IF s # <<>> /\ s[Len(s)] \in Whitespace THEN TrimEnd(DropLast(s)) ELSE s

RECURSIVE TrimStart(_)
\* str::trim_start
TrimStart(s) ==
    IF s # <<>> /\ Head(s) \in Whitespace THEN TrimStart(Tail(s)) ELSE s

\* str::trim
Trim(s) == TrimStart(TrimEnd(s))

UpperCase == <<"A", "B", "C", "D", "E", "F", "G", "H", "I", "J", "K", "L", "M",
               "N", "O", "P", "Q", "R", "S", "T", "U", "V", "W", "X", "Y", "Z">>
LowerCase == <<"a", "b", "c", "d", "e", "f", "g", "h", "i", "j", "k", "l", "m",
               "n", "o", "p", "q", "r", "s", "t", "u", "v", "w", "x", "y", "z">>

\* str::to_lowercase
ToLowercase(s) ==
    [k \in DOMAIN s |->
        IF \E j \in DOMAIN UpperCase : UpperCase[j] = s[k]
        THEN LowerCase[CHOOSE j \in DOMAIN UpperCase : UpperCase[j] = s[k]]
        ELSE s[k]]

\* str::find(c), for a string that contains c
Find(s, c) == CHOOSE k \in DOMAIN s : s[k] = c /\ \A j \in 1 .. (k - 1) : s[j] # c

\* Option<(String, String)>
None == [some |-> FALSE, key |-> EmptyStr, val |-> EmptyStr]
Some(key, val) == [some |-> TRUE, key |-> key, val |-> val]

\* parse_header: the text before the first ':' and the text after it, both
\* trimmed; None without a ':'
ParseHeader(header) ==
    IF Contains(header, ":")
    THEN LET p == Find(header, ":")
         IN  Some(Trim(SubSeq(header, 1, p - 1)),
                  Trim(SubSeq(header, p + 1, Len(header))))
    ELSE None

\* HeaderIterator::next on the line at k of w: read_line returns 0 at the
\* end of the stream; a line of more than 2 bytes goes to parse_header
IterNext(w, k) ==
    IF k <= Len(w) /\ Len(w[k]) > 2 THEN ParseHeader(TrimEnd(w[k])) ELSE None

RECURSIVE HeaderIterator(_, _)
\* the items a for loop over HeaderIterator gets, reading w from line k: the
\* loop ends at the first None
HeaderIterator(w, k) ==
    LET item == IterNext(w, k)
    IN  IF item.some
        THEN <<<<item.key, item.val>>>> \o HeaderIterator(w, k + 1)
        ELSE <<>>

\* the lines of w the BufReader has given out when the for loop over
\* HeaderIterator has ended: the line that ended the loop is read too
LinesRead(w) == Min(Len(HeaderIterator(w, 1)) + 1, Len(w))

\* Location values: an absolute URL, one whose port is not a number, and a
\* path on the same host
LocationUrl == Http \o Colon \o Slash \o Slash \o <<"h">> \o Slash \o <<"a">>
LocationBadPort ==
    Http \o Colon \o Slash \o Slash \o <<"h">> \o Colon \o <<"x">> \o Slash \o <<"a">>
LocationPath == Slash \o <<"a">>

\* the lines a server sends after the status line
HeaderLines ==
    {<<"L", "o", "c", "a", "t", "i", "o", "n">> \o Colon \o <<Space>> \o LocationUrl \o CrLf,
     <<"l", "o", "c", "a", "t", "i", "o", "n">> \o Colon \o LocationBadPort \o CrLf,
     <<"L", "O", "C", "A", "T", "I", "O", "N", Space>> \o Colon \o <<Space>> \o LocationPath \o CrLf,
     <<"a">> \o Colon \o <<Space, "b">> \o CrLf,
     <<"a", "b">> \o CrLf,
     <<"c">> \o Colon \o <<"d", Lf>>}
Wires ==
    UNION {{w \o <<CrLf>> : w \in [1 .. n -> HeaderLines \cup {CrLf}]} : n \in 0 .. MaxLines}

\* handle_redirect's for loop: the value of the first item whose lowercased
\* and trimmed key is "location"
RECURSIVE FindLocation(_)
FindLocation(items) ==
    IF items = <<>> THEN None
    ELSE IF Trim(ToLowercase(items[1][1])) = <<"l", "o", "c", "a", "t", "i", "o", "n">>
    THEN Some(items[1][1], items[1][2])
    ELSE FindLocation(Tail(items))

\* what handle_redirect finds on w: no Location, or how
\* HttpClientBuilder::new().from_url(&val) takes its value
Location(w) ==
    LET loc == FindLocation(HeaderIterator(w, 1))
    IN  IF ~loc.some THEN "absent"
        ELSE LET info == HttpxUrlInfoParse(loc.val)
             IN  IF info.status = "ok" THEN "url"
                 ELSE IF info.status = "err" THEN "unparsable"
                 ELSE "panic"

\* -------------------------------------------------------- HTTP responses
HttpFail(why) ==
    /\ hpc' = "err"
    /\ herr' = why
    /\ UNCHANGED <<hpolicy, hreq, hhops, hconns, hhdrs, hbody>>

\* make_response: the status line has fewer than 3 tokens, or the read fails
HttpMalformed ==
    /\ hpc = "ready"
    /\ HttpFail("invalid response")
    /\ hstatus' = 0
    /\ wire' = <<>>
    /\ UNCHANGED dvars
    /\ UNCHANGED uvars

\* make_response: status_code / 100 >= 4
HttpServerError ==
    /\ hpc = "ready"
    /\ \E st \in Statuses, w \in Wires :
         /\ st \div 100 >= 4
         /\ hstatus' = st
         /\ wire' = w
         /\ HttpFail("server response error")
    /\ UNCHANGED dvars
    /\ UNCHANGED uvars

\* make_response: any other status that is not 3xx: headers, then Ok with
\* the rest of the stream as the body
HttpSuccess ==
    /\ hpc = "ready"
    /\ \E st \in Statuses, w \in Wires :
         /\ st \div 100 < 4
         /\ st \div 100 # 3
         /\ hstatus' = st
         /\ wire' = w
         /\ hhdrs' = HeaderIterator(w, 1)
         /\ hbody' = LinesRead(w)
         /\ hpc' = "ok"
         /\ UNCHANGED <<hpolicy, hreq, hhops, hconns, herr>>
    /\ UNCHANGED dvars
    /\ UNCHANGED uvars

\* make_response: status_code / 100 == 3, the call of handle_redirect
HttpRedirect ==
    /\ hpc = "ready"
    /\ hhops < MaxChain
    /\ \E st \in Statuses, w \in Wires :
         /\ st \div 100 = 3
         /\ hstatus' = st
         /\ wire' = w
         /\ hpc' = "redirect"
         /\ UNCHANGED <<hpolicy, hreq, hhops, hconns, herr, hhdrs, hbody>>
    /\ UNCHANGED dvars
    /\ UNCHANGED uvars

\* handle_redirect returns Err(why)
RedirectFail(why) ==
    /\ HttpFail(why)
    /\ UNCHANGED <<hstatus, wire>>

\* client.get(&val) or client.head(&val) on the client built for the
\* Location: the same method, no request header, on a new connection on
\* which nothing has been read yet
Reissue ==
    /\ hconns' = hconns + 1
    /\ hhops' = hhops + 1
    /\ hreq' = [method |-> hreq.method, range |-> FALSE]
    /\ hpc' = "ready"
    /\ hstatus' = 0
    /\ wire' = <<>>
    /\ UNCHANGED <<hpolicy, herr, hhdrs, hbody>>

\* without a Location header the request is sent again on a new connection
HandleRedirect_Reconnect(location, connects) ==
    IF location = "unparsable"
    THEN RedirectFail("invalid location")
    ELSE IF location = "panic"
    THEN /\ hpc' = "panicked"
         /\ UNCHANGED <<hpolicy, hreq, hhops, hconns, herr, hhdrs, hbody, hstatus, wire>>
    ELSE IF ~connects
    THEN RedirectFail("connect failed")
    ELSE Reissue

\* handle_redirect: look for Location, build a client from
\* HttpClientBuilder::new().from_url(location) and call get or head on it
HandleRedirect(location, connects) ==
    IF location = "absent"
    THEN RedirectFail("no location header was found")
    ELSE IF location = "unparsable"
    THEN RedirectFail("invalid location")
    ELSE IF location = "panic"
    THEN /\ hpc' = "panicked"
         /\ UNCHANGED <<hpolicy, hreq, hhops, hconns, herr, hhdrs, hbody, hstatus, wire>>
    ELSE IF ~connects
    THEN RedirectFail("connect failed")
    ELSE Reissue

\* handle_redirect on the 3xx response just read
HttpHandleRedirect ==
    /\ hpc = "redirect"
    /\ \E connects \in BOOLEAN : HandleRedirect(Location(wire), connects)
    /\ UNCHANGED dvars
    /\ UNCHANGED uvars

NextHttp ==
    \/ HttpMalformed
    \/ HttpServerError
    \/ HttpSuccess
    \/ HttpRedirect
    \/ HttpHandleRedirect

SpecHttp == InitHttp /\ [][NextHttp]_vars

\* ================================================================= claims
\* every message part i has put on the channel, in the order it sent them
RECURSIVE OfPart(_, _)
OfPart(q, i) ==
    IF q = <<>> THEN <<>>
    ELSE IF Head(q).idx = i THEN <<Head(q)>> \o OfPart(Tail(q), i)
    ELSE OfPart(Tail(q), i)
Sent(i) == rcvd[i] \o OfPart(chan, i)

IsProgress(m) == m.kind = "Progress"
\* the value of part i's last Progress event, 0 if it sent none
LastProgress(i) ==
    LET ps == SelectSeq(Sent(i), IsProgress)
    IN  IF ps = <<>> THEN 0 ELSE ps[Len(ps)].n

Planned == DOMAIN ranges # {}
Spawned == wpc[0] # "unspawned"
Downloaded == cpc = "ok" /\ result.msg = "downloaded"
Honest(i) == body[i] = HonestBody(dlinfo.len, Start(i), End(i))

\* C1: for every len > 0 and N, part 0 starts at 0, part N-1 ends at len-1,
\* the ranges start..=end are pairwise disjoint and cover [0, len) exactly,
\* and no range is inverted: start_i <= end_i + 1 for every part.
C1_PartitionExact ==
    Planned =>
        /\ Start(0) = 0
        /\ End(N - 1) = dlinfo.len - 1
        /\ \A i, j \in Live :
             i # j => RangeSet(Start(i), End(i)) \cap RangeSet(Start(j), End(j)) = {}
        /\ UNION {RangeSet(Start(i), End(i)) : i \in Live} = 0 .. (dlinfo.len - 1)
        /\ \A i \in Live : Start(i) <= End(i) + 1

\* C2: a worker that was sent exactly the bytes of its range and finished
\* with Done has written end-start+1 bytes (its last Progress value, 0 if
\* none), however the body was split across reads.
C2_DoneWroteWholeRange ==
    \A i \in Live :
        (wpc[i] = "done" /\ Start(i) <= End(i) /\ Honest(i)) =>
            LastProgress(i) = End(i) - Start(i) + 1

\* C3: when every ranged GET is answered with exactly the bytes start..=end,
\* a download that returns Ok leaves the original resource at the output path.
C3_OutputEqualsResource ==
    (Downloaded /\ \A i \in Live : Honest(i)) =>
        /\ Exists(files, OutPath)
        /\ files[OutPath] = Resource(dlinfo.len)

RECURSIVE ConcatWritten(_)
\* what the workers wrote, part 0 first
ConcatWritten(k) ==
    IF k \notin Live THEN <<>> ELSE Written(k) \o ConcatWritten(k + 1)

\* C4: a temp file holds what its worker wrote, and the merged output is the
\* concatenation of the temp files in ascending idx order, in whatever order
\* the Done events arrived.
C4_MergedInIdxOrder ==
    /\ \A i \in Live : Exists(files, TempPath(i)) => files[TempPath(i)] = Written(i)
    /\ Downloaded => files[OutPath] = ConcatWritten(0)

\* a finished download of two non-empty parts whose Done events arrived in
\* descending idx order
C4_Witness ==
    /\ Downloaded
    /\ N >= 2
    /\ Written(0) # <<>>
    /\ Written(1) # <<>>
    /\ \E p, q \in 1 .. Len(arrived) : p < q /\ arrived[p] > arrived[q]

\* C5: under RedirectPolicy::Follow(n) the client never follows more than n
\* redirects: a chain of 3xx answers ends in an error once n were followed.
C5_FollowBudget ==
    hpolicy.kind = "Follow" => hhops <= hpolicy.max

\* C6: a client built with RedirectPolicy::None follows no redirect and
\* opens no second connection.
C6_NoRedirectRefuses ==
    hpolicy.kind = "None" => (hhops = 0 /\ hconns = 1)

\* the controller takes a Failed message from the channel
TakesFailed == HasMsg /\ NextMsg.kind = "Failed" /\ chan' = Tail(chan)

\* C7: on receiving Failed for part idx, download returns at once with an
\* error naming that part; it stays returned, merge_parts never runs and
\* nothing appears at the output path (nor at <output>.tmp).
C7_FailedAborts ==
    /\ [][TakesFailed =>
            /\ cpc' = "err"
            /\ result' = [kind |-> "err", msg |-> "download failed at part",
                          part |-> NextMsg.idx]
            /\ files' = files]_vars
    /\ [][cpc = "err" => cpc' = "err" /\ result' = result]_vars
    /\ [](cpc = "err" => ~Exists(files, OutPath) /\ ~Exists(files, OutTmpPath))

\* download has returned the error of a Failed part while another worker
\* is still in its read loop
C7_Witness ==
    /\ cpc = "err"
    /\ result.msg = "download failed at part"
    /\ rcvd[result.part] # <<>>
    /\ rcvd[result.part][Len(rcvd[result.part])].kind = "Failed"
    /\ \E j \in Live : j # result.part /\ wpc[j] = "reading"

\* worker i left its read loop on a read of 0 bytes with pos < end
ShortRead(i) == wpc[i] = "done" /\ LoopCond(pos[i], End(i)) /\ Unread(i) = <<>>

\* C8: a download in which the server closed a body early does not
\* complete as a success.
C8_ShortReadFails ==
    Downloaded => \A i \in Live : ~ShortRead(i)

\* C9: with len < N the first len parts cover 1 byte each and the others
\* none; the worker of a 0-byte part does not panic, and when it is Done it
\* has sent no Progress.
C9_ZeroByteParts ==
    (Spawned /\ dlinfo.len < N) =>
        \A i \in Live :
            /\ Cardinality(RangeSet(Start(i), End(i)))
                   = (IF i < dlinfo.len THEN 1 ELSE 0)
            /\ i >= dlinfo.len =>
                   /\ cpc = "loop" => wpc[i] # "panicked"
                   /\ wpc[i] = "done" => LastProgress(i) = 0

\* C10: in the events of one part, Started comes first if at all, every
\* Progress has the Started before it, and Done or Failed is the last event.
C10_PartEventOrder ==
    \A i \in Parts :
        LET ev == Sent(i)
        IN  \A p \in 1 .. Len(ev) :
                /\ ev[p].kind = "Started" => p = 1
                /\ ev[p].kind = "Progress" => ev[1].kind = "Started"
                /\ ev[p].kind \in {"Done", "Failed"} => p = Len(ev)

\* a part has sent Started, two Progress and then its terminal event
C10_Witness ==
    \E i \in Live :
        /\ Len(Sent(i)) = 4
        /\ Sent(i)[1].kind = "Started"
        /\ Sent(i)[2].kind = "Progress"
        /\ Sent(i)[3].kind = "Progress"
        /\ Sent(i)[4].kind \in {"Done", "Failed"}

\* the observer calls the controller has made for part i, in order:
\* on_download_start for Started, on_progress for Progress, on_download_end
\* for Done and for Failed
IsStarted(m) == m.kind = "Started"
IsTerminal(m) == m.kind \in {"Done", "Failed"}
StartCalls(i) == SelectSeq(rcvd[i], IsStarted)
ProgressCalls(i) == SelectSeq(rcvd[i], IsProgress)
EndCalls(i) == SelectSeq(rcvd[i], IsTerminal)

\* C11: for every part, every value passed to on_progress is at most the
\* length passed to on_download_start for that part.
C11_ProgressWithinLength ==
    \A i \in Parts :
        \A p \in DOMAIN ProgressCalls(i), q \in DOMAIN StartCalls(i) :
            ProgressCalls(i)[p].n <= StartCalls(i)[q].n

\* C12: the length passed to on_download_start is the number of bytes of
\* the part's range, end-start+1.
C12_StartLengthIsRangeSize ==
    \A i \in Live :
        \A q \in DOMAIN StartCalls(i) :
            StartCalls(i)[q].n = End(i) - Start(i) + 1

\* C13: on_download_end is called at most once for each part, under every
\* interleaving of the workers' events.
C13_EndAtMostOnce ==
    \A i \in Parts : Len(EndCalls(i)) <= 1

\* on_download_end was called for two parts, for one on its Done and for
\* the other on its Failed
C13_Witness ==
    \E i, j \in Live :
        /\ EndCalls(i) # <<>>
        /\ EndCalls(j) # <<>>
        /\ EndCalls(i)[1].kind = "Done"
        /\ EndCalls(j)[1].kind = "Failed"

\* the HEAD response is in and get_download_info has read it
Probed == head.status # 0 /\ ~cfg.info

\* nothing of download has happened: no plan, no thread, no event, no
\* observer call, no file
NothingStarted ==
    /\ ranges = <<>>
    /\ \A i \in Parts : wpc[i] = "unspawned" /\ rcvd[i] = <<>>
    /\ chan = <<>>
    /\ files = <<>>
    /\ inits = <<>>

\* C14: when the HEAD response has Content-Length 0 or none and info mode
\* is off, run fails with the content-length error and no worker is
\* spawned nor any observer callback made, then or later.
C14_EmptyLengthFailsFirst ==
    (Probed /\ head.content_length \in {<<>>, <<0>>}) =>
        /\ cpc = "err"
        /\ result = [kind |-> "err", msg |-> "content length is zero", part |-> 0]
        /\ NothingStarted

\* run has failed on a HEAD response without Content-Length that announces
\* range support to a download configured with two threads
C14_Witness ==
    /\ Probed
    /\ head.content_length = <<>>
    /\ head.accept_ranges = <<"bytes">>
    /\ cfg.num_threads = 2
    /\ cpc = "err"

\* C15: when the HEAD response has no Accept-Ranges header or one whose
\* value is not exactly "bytes", exactly one worker is spawned, and it
\* requests the range 0..len-1, whatever num_threads is.
C15_NoRangesOneWorker ==
    (Spawned /\ head.accept_ranges # <<"bytes">>) =>
        /\ Live = {0}
        /\ \A i \in Parts \ {0} : wpc[i] = "unspawned"
        /\ Start(0) = 0
        /\ End(0) = head.content_length[1] - 1

\* a download configured with two threads whose only worker is reading the
\* body, the server having answered Accept-Ranges: Bytes
C15_Witness ==
    /\ cfg.num_threads = 2
    /\ head.accept_ranges = <<"Bytes">>
    /\ head.content_length = <<MaxLen>>
    /\ wpc[0] = "reading"
    /\ pos[0] > 0

\* no part was planned with start > end, on which `end - start` overflows
NoEmptyRange == \A i \in Live : Start(i) <= End(i)

\* C16: a server that accepts the connection and then stops sending does
\* not hold a worker for ever: every worker ends with Done or Failed (or
\* the download has failed on another part), and run returns.
C16_StallBounded ==
    /\ \A i \in Parts :
          (wpc[i] = "spawned" /\ NoEmptyRange)
              ~> (wpc[i] \in {"done", "failed"} \/ cpc = "err")
    /\ (cpc = "loop" /\ NoEmptyRange) ~> (cpc \in {"ok", "err"})

\* the controller runs merge_parts, which opens the temp files
MergeRuns ==
    /\ result.kind = "none"
    /\ result'.msg \in {"downloaded", "merge failed"}

C18_PathAndFnameShape ==
    (upc = "parsed" /\ uinfo.by = "urlinfo" /\ uinfo.status = "ok") =>
        /\ uinfo.path # EmptyStr
        /\ Head(uinfo.path) = "/"
        /\ uinfo.fname # EmptyStr

\* the ports an authority can name, and the URL scheme://host[:port]/rest
\* whose rest is the pieces segs joined by '/'
ValidPorts == {p \in PortTexts : p.value # -1}
FormedUrl(sch, host, withPort, p, segs) ==
    sch \o Colon \o Slash \o Slash \o host
        \o (IF withPort THEN Colon \o p.text ELSE EmptyStr)
        \o Slash \o Join(segs)
DefaultPort(sch) == IF sch = Http THEN 80 ELSE 443
DefaultPortText(sch) == IF sch = Http THEN <<"8", "0">> ELSE <<"4", "4", "3">>

\* C19: for a URL scheme://host[:port]/rest with scheme http or https, both
\* parsers return that scheme, domain = host, port = the explicit port or
\* 80 / 443, path = '/' rest, fname = the last piece, host_addr = domain:port.
C19_ParseRoundTrip ==
    upc = "parsed" =>
        \A sch \in {Http, Https}, host \in Hosts, withPort \in BOOLEAN,
           p \in ValidPorts, segs \in RestSeqs \ {<<>>} :
            url = FormedUrl(sch, host, withPort, p, segs) =>
                /\ uinfo.status = "ok"
                /\ uinfo.scheme = sch
                /\ uinfo.domain = host
                /\ uinfo.port = (IF withPort THEN p.value ELSE DefaultPort(sch))
                /\ uinfo.path = Slash \o Join(segs)
                /\ uinfo.fname = segs[Len(segs)]
                /\ HostAddr(uinfo) =
                       host \o Colon
                            \o (IF withPort THEN p.canon ELSE DefaultPortText(sch))

\* a Location value https://h:08/<piece>/<piece> has been parsed
C19_Witness ==
    /\ upc = "parsed"
    /\ uinfo.by = "httpx"
    /\ \E segs \in RestSeqs :
         /\ Len(segs) = 2
         /\ segs[2] # EmptyStr
         /\ url = Https \o Colon \o Slash \o Slash \o <<"h", ":", "0", "8">>
                       \o Slash \o Join(segs)
    /\ uinfo.status = "ok"
    /\ uinfo.port = 8

\* C20: a URL whose scheme piece is not exactly "http:" or "https:" is
\* refused with the scheme error by both parsers, with or without an
\* explicit port (URLs of at least four pieces, which pass the length check).
C20_BadSchemeRejected ==
    (upc = "parsed" /\ Len(Split(url, "/")) >= 4
                    /\ ~ValidScheme(Split(url, "/")[1])) =>
        /\ uinfo.status = "err"
        /\ uinfo.err = "Invalid scheme"

\* ------------------------------------------------------- response claims
\* the index of the blank line that ends the headers of w
BlankLine(w) ==
    CHOOSE k \in DOMAIN w :
        /\ TrimEnd(w[k]) = EmptyStr
        /\ \A j \in 1 .. (k - 1) : TrimEnd(w[j]) # EmptyStr

RECURSIVE WellFormedFrom(_, _)
\* name and value of every line with a ':' from line k of w up to the blank
\* line
WellFormedFrom(w, k) ==
    IF k >= BlankLine(w) THEN <<>>
    ELSE LET h == ParseHeader(TrimEnd(w[k]))
         IN  (IF h.some THEN <<<<h.key, h.val>>>> ELSE <<>>) \o WellFormedFrom(w, k + 1)

\* some header of w, before the blank line, is named Location in any case
CarriesLocation(w) ==
    \E k \in 1 .. (BlankLine(w) - 1) :
        LET h == ParseHeader(TrimEnd(w[k]))
        IN  h.some /\ ToLowercase(h.key) = <<"l", "o", "c", "a", "t", "i", "o", "n">>

\* the request has returned or its thread has panicked
Answered == hpc \in {"ok", "err", "panicked"}

\* C21: when a response has a header line without ':', the request does not
\* fail on it, every well-formed header line up to the blank line is in the
\* response headers, and the body starts after the blank line.
C21_MalformedHeaderSkipped ==
    hpc = "ok" =>
        /\ hhdrs = WellFormedFrom(wire, 1)
        /\ hbody = BlankLine(wire)

\* C22: a GET whose last response is not 2xx returns an error (so that
\* the worker sends Failed without Started and without creating its file);
\* every 4xx and 5xx does.
C22_NonSuccessFails ==
    (Answered /\ hreq.method = "GET" /\ hstatus \div 100 # 2) => hpc = "err"

\* C24: a 3xx response without a Location header (in any case) makes the
\* request fail with the missing-location error, and no connection is opened.
C24_NoLocationFails ==
    [][(hpc = "redirect" /\ ~CarriesLocation(wire)) =>
          /\ hpc' = "err"
          /\ herr' = "no location header was found"
          /\ hconns' = hconns]_vars

\* after one followed redirect, a second 3xx response with a well-formed
\* header but no Location has ended the request
C24_Witness ==
    /\ hstatus \div 100 = 3
    /\ hhops = 1
    /\ hconns = 2
    /\ ~CarriesLocation(wire)
    /\ Len(WellFormedFrom(wire, 1)) >= 1
    /\ hpc = "err"
    /\ herr = "no location header was found"

\* C29: a followed redirect re-issues the request with the same method and
\* with the Range header the worker gave.
C29_RedirectKeepsRange ==
    [][hhops' > hhops =>
          /\ hreq'.method = hreq.method
          /\ hreq'.range = hreq.range]_vars

\* ------------------------------------------------------- download claims
\* C23: in info mode run returns Ok right after the HEAD response, whatever
\* its Content-Length: no worker, no event, no observer call and no file,
\* then or later.
C23_InfoModeOnlyProbes ==
    (cfg.info /\ head.status # 0) =>
        /\ cpc = "ok"
        /\ result = [kind |-> "ok", msg |-> "info", part |-> 0]
        /\ NothingStarted

\* info mode has returned on a HEAD response without Content-Length
C23_Witness ==
    /\ cfg.info
    /\ head.status = 200
    /\ head.content_length = <<>>
    /\ cpc = "ok"

\* C25: after download has returned on a Failed event, no thread of a part
\* with a non-empty range panics: a send that fails is ignored.
C25_SiblingsEndQuietly ==
    (cpc = "err" /\ result.msg = "download failed at part" /\ NoEmptyRange) =>
        \A i \in Live : wpc[i] # "panicked"

\* the parts whose thread has been spawned
SpawnedParts == {i \in Parts : wpc[i] # "unspawned"}

\* C26: on_init is called once per download, with the number of threads
\* spawned, before the first thread is spawned and so before any event of a
\* part is handled.
C26_InitOnceBeforeSpawn ==
    /\ [](Len(inits) <= 1)
    /\ []((SpawnedParts # {} \/ \E i \in Parts : rcvd[i] # <<>>) =>
              inits = <<Cardinality(SpawnedParts)>>)
    /\ [][SpawnedParts' # SpawnedParts => (inits # <<>> /\ inits' = inits)]_vars

\* two threads were asked for, the server has no ranges: one thread was
\* spawned after on_init(1), and the download has finished
C26_Witness ==
    /\ cfg.num_threads = 2
    /\ inits = <<1>>
    /\ SpawnedParts = {0}
    /\ Downloaded

\* C27: once every worker thread has ended, by panicking too, the event
\* loop ends and download returns.
C27_LoopEndsWithWorkers ==
    (cpc = "loop" /\ \A i \in Live : Terminated(i)) ~> cpc # "loop"

\* C28: a temp file never holds more bytes than its range has, whatever the
\* server sends.
C28_WritesWithinRange ==
    \A i \in Live :
        (Start(i) <= End(i) /\ Exists(files, TempPath(i))) =>
            Len(files[TempPath(i)]) <= End(i) - Start(i) + 1

IsDone(m) == m.kind = "Done"
\* the controller is past the event loop on its way to merge_parts
PastLoop == cpc = "join" \/ result.msg \in {"downloaded", "merge failed"}

\* C30: when download goes on to merge_parts it has received exactly one
\* Done from every part, and every entry of dlparts is the path that part's
\* own Done carried, none empty.
C30_OneDonePerPart ==
    PastLoop =>
        /\ DOMAIN dlparts = Live
        /\ \A i \in Live :
              /\ Len(SelectSeq(rcvd[i], IsDone)) = 1
              /\ dlparts[i] = SelectSeq(rcvd[i], IsDone)[1].s
              /\ dlparts[i] = TempPath(i)
              /\ dlparts[i] # NoPath

\* download is past the loop after the Done of part 1 came before the Done
\* of part 0
C30_Witness ==
    /\ PastLoop
    /\ arrived = <<1, 0>>
    /\ dlparts = [i \in {0, 1} |-> TempPath(i)]

====
